---- MODULE Spec2Model ----
(***************************************************************************)
(* ReactionParser: the shunting-yard evaluator of parser.c (the version    *)
(* with a per-call ParserContext and thread_local scan state), the CLI     *)
(* wrapper that evaluates argv[1] once, and the benchmark driver that      *)
(* evaluates one expression in a loop.                                     *)
(*                                                                         *)
(* A character is a one-character string; CharCode gives its code, which   *)
(* is what the classification macros and the lookup table work on.  The    *)
(* byte 0x80, which is no ASCII character, is written "0x80".  A           *)
(* double is an exact rational with a sign (so that -0.0 is a value) as    *)
(* long as numerator and denominator stay within Exact; a result outside   *)
(* that range, or one IEEE arithmetic makes non-finite or irrational, is   *)
(* an opaque term over its operands.  Rounding is not modelled.            *)
(***************************************************************************)
EXTENDS Integers, Sequences, FiniteSets, TLC

\* ------------------------------------------------------------------ bounds
\* Every string of at most MaxLen characters over Alphabet is an input.
MaxLen == 3
\* Iterations of the benchmark driver's loop.
MaxCalls == 2
\* Numerators and denominators up to Exact are computed exactly.
Exact == 16384

\* ------------------------------------------------------- program constants
MAXOPSTACK == 64
MAXNUMSTACK == 64
OP_MAX == 128
\* EXIT_FAILURE of stdlib.h, which parser returns as a double.
EXIT_FAILURE == 1

\* -------------------------------------------------------------- characters
Digits == {"0", "2", "3"}
BinarySymbols == {"+", "-", "*", "/", "%", "^"}
Alphabet == Digits \cup BinarySymbols \cup {".", " ", "(", ")", "_", "a", "0x80"}

CharCode(c) ==
    CASE c = " " -> 32  [] c = "%" -> 37  [] c = "(" -> 40  [] c = ")" -> 41
      [] c = "*" -> 42  [] c = "+" -> 43  [] c = "-" -> 45  [] c = "." -> 46
      [] c = "/" -> 47  [] c = "0" -> 48  [] c = "1" -> 49  [] c = "2" -> 50
      [] c = "3" -> 51  [] c = "4" -> 52  [] c = "5" -> 53  [] c = "6" -> 54
      [] c = "7" -> 55  [] c = "8" -> 56  [] c = "9" -> 57  [] c = "X" -> 88
      [] c = "^" -> 94  [] c = "_" -> 95  [] c = "a" -> 97  [] c = "0x80" -> 128

DigitValue(c) == CharCode(c) - CharCode("0")

IS_DIGIT_OR_DECIMAL(c) ==
    c = "." \/ (CharCode(c) - CharCode("0") >= 0 /\ CharCode(c) - CharCode("0") < 10)

isspace(c) == CharCode(c) = 32 \/ (CharCode(c) >= 9 /\ CharCode(c) <= 13)

\* ---------------------------------------------------------- operator table
ASSOC_NONE == 0
ASSOC_LEFT == 1
ASSOC_RIGHT == 2

OperatorSymbols == <<"_", "^", "*", "/", "%", "+", "-", "(", ")">>

\* The table with the ranks of '_' and '^' exchanged.
PrecedenceExchanged(s) ==
    CASE s = "_" -> 9 [] s = "^" -> 10
      [] s \in {"*", "/", "%"} -> 8
      [] s \in {"+", "-"} -> 5
      [] OTHER -> 0

Precedence(s) ==
    CASE s = "_" -> 10 [] s = "^" -> 9
      [] s \in {"*", "/", "%"} -> 8
      [] s \in {"+", "-"} -> 5
      [] OTHER -> 0

Association(s) ==
    CASE s \in {"_", "^"} -> ASSOC_RIGHT
      [] s \in {"*", "/", "%", "+", "-"} -> ASSOC_LEFT
      [] OTHER -> ASSOC_NONE

EvalName(s) ==
    CASE s = "_" -> "eval_uminus"   [] s = "^" -> "eval_exponent"
      [] s = "*" -> "eval_multiply" [] s = "/" -> "eval_divide"
      [] s = "%" -> "eval_modulo"   [] s = "+" -> "eval_add"
      [] s = "-" -> "eval_subtract" [] OTHER -> "NULL"

\* operators[]: the entry of symbol s.
operators == [s \in {OperatorSymbols[i] : i \in 1..Len(OperatorSymbols)} |->
    [operator |-> s, precedence |-> Precedence(s), association |-> Association(s),
     unary |-> IF s = "_" THEN 1 ELSE 0, eval |-> EvalName(s)]]

\* startoperator: the sentinel lastoperator starts at.
startoperator == [operator |-> "X", precedence |-> 0, association |-> ASSOC_NONE,
                  unary |-> 0, eval |-> "NULL"]

\* ----------------------------------------------------------------- doubles
RECURSIVE GCD(_, _)
GCD(a, b) == IF b = 0 THEN a ELSE GCD(b, a % b)

\* The double of sign s (1 or -1) and magnitude n/d, in lowest terms.
Num(s, n, d) ==
    LET g == GCD(n, d) IN [k |-> "num", s |-> s, n |-> n \div g, d |-> d \div g]

\* A double the model does not compute: the result of f on args.
Opaque(f, args) == [k |-> "term", f |-> f, args |-> args]

IsNum(v) == v.k = "num"
\* A double holds n/d exactly, whatever the operation that made it, when d is a
\* power of two and both are small; the model computes no other value.
RECURSIVE IsPow2(_)
IsPow2(d) == d = 1 \/ (d > 1 /\ d % 2 = 0 /\ IsPow2(d \div 2))
InRange(n, d) == n <= Exact /\ d <= Exact /\ IsPow2(d)
Abs(i) == IF i < 0 THEN -i ELSE i
Zero == Num(1, 0, 1)
One == Num(1, 1, 1)

\* The double of a small integer literal.
Lit(i) == Num(1, i, 1)

\* n^e by repeated multiplication; -1 as soon as the product exceeds Exact.
RECURSIVE PowAcc(_, _, _)
PowAcc(n, e, acc) ==
    IF e = 0 THEN acc
    ELSE IF n <= 1 THEN n
    ELSE IF acc * n > Exact THEN -1
    ELSE PowAcc(n, e - 1, acc * n)

Negate(v) == [v EXCEPT !.s = -v.s]

\* The negation of the second argument.
eval_uminusOfRight(arg1, arg2) ==
    IF IsNum(arg2) THEN Negate(arg2) ELSE Opaque("eval_uminus", <<arg2>>)

eval_uminus(arg1, arg2) ==
    IF IsNum(arg1) THEN Negate(arg1) ELSE Opaque("eval_uminus", <<arg1>>)

eval_add(arg1, arg2) ==
    IF ~(IsNum(arg1) /\ IsNum(arg2)) THEN Opaque("eval_add", <<arg1, arg2>>)
    ELSE LET N == arg1.s * arg1.n * arg2.d + arg2.s * arg2.n * arg1.d
             D == arg1.d * arg2.d
             r == Num(IF N < 0 THEN -1 ELSE 1, Abs(N), D)
         IN  IF N = 0
             THEN Num(IF arg1.s = -1 /\ arg2.s = -1 THEN -1 ELSE 1, 0, 1)
             ELSE IF InRange(r.n, r.d) THEN r
             ELSE Opaque("eval_add", <<arg1, arg2>>)

eval_subtract(arg1, arg2) ==
    IF ~(IsNum(arg1) /\ IsNum(arg2)) THEN Opaque("eval_subtract", <<arg1, arg2>>)
    ELSE LET r == eval_add(arg1, Negate(arg2))
         IN  IF IsNum(r) THEN r ELSE Opaque("eval_subtract", <<arg1, arg2>>)

eval_multiply(arg1, arg2) ==
    IF ~(IsNum(arg1) /\ IsNum(arg2)) THEN Opaque("eval_multiply", <<arg1, arg2>>)
    ELSE LET r == Num(arg1.s * arg2.s, arg1.n * arg2.n, arg1.d * arg2.d)
         IN  IF InRange(r.n, r.d) THEN r
             ELSE Opaque("eval_multiply", <<arg1, arg2>>)

\* arg1/arg2 with no test of arg2: a zero divisor gives an IEEE infinity or NaN.
eval_divide(arg1, arg2) ==
    IF ~(IsNum(arg1) /\ IsNum(arg2)) \/ arg2.n = 0
    THEN Opaque("eval_divide", <<arg1, arg2>>)
    ELSE LET r == Num(arg1.s * arg2.s, arg1.n * arg2.d, arg1.d * arg2.n)
         IN  IF InRange(r.n, r.d) THEN r
             ELSE Opaque("eval_divide", <<arg1, arg2>>)

\* fmodf(arg1, arg2) with no test of arg2: the remainder has arg1's sign, and a
\* zero divisor gives NaN.
eval_modulo(arg1, arg2) ==
    IF ~(IsNum(arg1) /\ IsNum(arg2)) \/ arg2.n = 0
    THEN Opaque("eval_modulo", <<arg1, arg2>>)
    ELSE LET p == arg1.n * arg2.d
             q == arg2.n * arg1.d
             r == Num(arg1.s, p % q, arg1.d * arg2.d)
         IN  IF InRange(r.n, r.d) THEN r
             ELSE Opaque("eval_modulo", <<arg1, arg2>>)

\* pow(arg1, arg2): exact for an integer exponent, 1 for a zero exponent.
eval_exponent(arg1, arg2) ==
    IF IsNum(arg2) /\ arg2.n = 0 THEN One
    ELSE IF ~(IsNum(arg1) /\ IsNum(arg2)) \/ arg2.d # 1
         \/ (arg1.n = 0 /\ arg2.s = -1)
    THEN Opaque("eval_exponent", <<arg1, arg2>>)
    ELSE LET pn == PowAcc(arg1.n, arg2.n, 1)
             pd == PowAcc(arg1.d, arg2.n, 1)
             sg == IF arg1.s = -1 /\ arg2.n % 2 = 1 THEN -1 ELSE 1
         IN  IF pn = -1 \/ pd = -1 THEN Opaque("eval_exponent", <<arg1, arg2>>)
             ELSE LET r == IF arg2.s = 1 THEN Num(sg, pn, pd) ELSE Num(sg, pd, pn)
                  IN  IF InRange(r.n, r.d) THEN r
                      ELSE Opaque("eval_exponent", <<arg1, arg2>>)

\* The call with its arguments exchanged.
ApplySwapped(eval, arg1, arg2) ==
    CASE eval = "eval_uminus" -> eval_uminus(arg2, arg1)
      [] eval = "eval_exponent" -> eval_exponent(arg2, arg1)
      [] eval = "eval_multiply" -> eval_multiply(arg2, arg1)
      [] eval = "eval_divide" -> eval_divide(arg2, arg1)
      [] eval = "eval_modulo" -> eval_modulo(arg2, arg1)
      [] eval = "eval_add" -> eval_add(arg2, arg1)
      [] eval = "eval_subtract" -> eval_subtract(arg2, arg1)

\* The call pop->eval(arg1, arg2) through the table's function pointer.
Apply(eval, arg1, arg2) ==
    CASE eval = "eval_uminus" -> eval_uminus(arg1, arg2)
      [] eval = "eval_exponent" -> eval_exponent(arg1, arg2)
      [] eval = "eval_multiply" -> eval_multiply(arg1, arg2)
      [] eval = "eval_divide" -> eval_divide(arg1, arg2)
      [] eval = "eval_modulo" -> eval_modulo(arg1, arg2)
      [] eval = "eval_add" -> eval_add(arg1, arg2)
      [] eval = "eval_subtract" -> eval_subtract(arg1, arg2)

\* ------------------------------------------------------------------ strtod
\* The number of digits of str from position i on.
RECURSIVE DigitRun(_, _)
DigitRun(str, i) ==
    IF i > Len(str) \/ str[i] = "." \/ ~IS_DIGIT_OR_DECIMAL(str[i]) THEN 0
    ELSE 1 + DigitRun(str, i + 1)

\* The digits str[i..i+n-1] read as a decimal integer after acc; -1 past Exact.
RECURSIVE DigitsValue(_, _, _, _)
DigitsValue(str, i, n, acc) ==
    IF acc = -1 \/ n = 0 THEN acc
    ELSE LET v == acc * 10 + DigitValue(str[i])
         IN  DigitsValue(str, i + 1, n - 1, IF v > Exact THEN -1 ELSE v)

\* strtod(str + i - 1, NULL) where str[i] is a digit or '.': the longest prefix
\* digits [. digits] with at least one digit; 0 when there is no digit.
strtod(str, i) ==
    LET ni == DigitRun(str, i)
        dot == i + ni <= Len(str) /\ str[i + ni] = "."
        nf == IF dot THEN DigitRun(str, i + ni + 1) ELSE 0
        ip == DigitsValue(str, i, ni, 0)
        all == IF ip = -1 THEN -1 ELSE DigitsValue(str, i + ni + 1, nf, ip)
        den == PowAcc(10, nf, 1)
    IN  IF ni + nf = 0 THEN Zero
        ELSE IF all = -1 \/ den = -1
        THEN Opaque("strtod", <<SubSeq(str, i, i + ni + (IF dot THEN nf ELSE -1))>>)
        ELSE IF ~InRange(Num(1, all, den).n, Num(1, all, den).d)
        THEN Opaque("strtod", <<SubSeq(str, i, i + ni + (IF dot THEN nf ELSE -1))>>)
        ELSE Num(1, all, den)

\* ------------------------------------------------------------------ inputs
Strings(n) == [1..n -> Alphabet]
AllStrings == UNION {Strings(n) : n \in 0..MaxLen}

\* The shapes the test suites evaluate, over every digit and binary operator.
Chains == {<<a, o1, b, o2, c>> : a \in Digits, o1 \in BinarySymbols,
             b \in Digits, o2 \in BinarySymbols, c \in Digits}
Grouped ==
    {<<"(", x[1], x[2], x[3], ")", x[4], x[5]>> : x \in Chains}
    \cup {<<x[1], x[2], "(", x[3], x[4], x[5], ")">> : x \in Chains}
    \cup {<<"(", x[1], x[2], "(", x[3], x[4], x[5], ")", ")">> : x \in Chains}
Signed ==
    {<<"-", a, o, b>> : a \in Digits, o \in BinarySymbols, b \in Digits}
    \cup {<<a, o, "-", b>> : a \in Digits, o \in BinarySymbols, b \in Digits}
    \cup {<<"-", "(", "-", a, ")">> : a \in Digits}
Malformed ==
    {<<a, o1, o2, b>> : a \in Digits, o1 \in BinarySymbols,
       o2 \in BinarySymbols, b \in Digits}
    \cup {<<o1, a, o2, b>> : o1 \in BinarySymbols, a \in Digits,
            o2 \in BinarySymbols, b \in Digits}
    \cup {<<"(", "(", a, o, b, ")">> : a \in Digits, o \in BinarySymbols, b \in Digits}
    \cup {<<a, o, b, ")">> : a \in Digits, o \in BinarySymbols, b \in Digits}
    \cup {<<a, o, "(", b>> : a \in Digits, o \in BinarySymbols, b \in Digits}

\* Two operands with no operator between them, and an operator after them.
Adjacent ==
    {<<a, " ", b, o>> : a \in Digits, b \in Digits, o \in BinarySymbols}
    \cup {<<a, "(", b, ")", o>> : a \in Digits, b \in Digits, o \in BinarySymbols}
    \cup {<<"(", a, ")", b, o>> : a \in Digits, b \in Digits, o \in BinarySymbols}

\* Inputs that fill a stack: n times '(', and n literals each ended by a space.
OpenParens(n) == [i \in 1..n |-> "("]
Literals(n) == [i \in 1..(2 * n) |-> IF i % 2 = 1 THEN "2" ELSE " "]
StackFillers ==
    {OpenParens(MAXOPSTACK), OpenParens(MAXOPSTACK + 1),
     OpenParens(MAXOPSTACK) \o <<"-">>,
     Literals(MAXNUMSTACK), Literals(MAXNUMSTACK + 1),
     Literals(MAXNUMSTACK) \o <<"2">>, Literals(MAXNUMSTACK) \o <<"2", "+">>}

Inputs == AllStrings \cup Chains \cup Grouped \cup Signed \cup Malformed
          \cup Adjacent \cup StackFillers
          \cup {<<"(", " ", "2", " ", "+", "3", ")">>}

\* ------------------------------------------------------------------- state
VARIABLES
    threads,       \* the threads of the process that call parser
    expression,    \* expression[t]: the string thread t passes to parser
    ncalls,        \* ncalls[t]: the calls of parser thread t has made
    pc,            \* pc[t]: "main", or where in parser thread t is
    expr,          \* expr[t]: parser's scan cursor, a position of expression[t]
    tstart,        \* tstart[t]: thread_local; 0 is NULL, else a position
    op,            \* op[t]: thread_local
    pop,           \* pop[t]: thread_local
    lastoperator,  \* lastoperator[t]: "NULL", "X" (&startoperator) or a symbol
    opstack,       \* opstack[t]: ctx.opstack[0 .. ctx.nopstack-1]
    numstack,      \* numstack[t]: ctx.numstack[0 .. ctx.nnumstack-1]
    outcomes,      \* outcomes[t]: how each call of thread t ended, in order
    op_lookup,     \* the static table op_lookup[OP_MAX]
    stderr,        \* the lines written to stderr
    stdout,        \* the lines written to stdout
    exitstatus     \* "running", or how the process ended

vars == <<threads, expression, ncalls, pc, expr, tstart, op, pop, lastoperator,
          opstack, numstack, outcomes, op_lookup, stderr, stdout, exitstatus>>

nopstack(t) == Len(opstack[t])
nnumstack(t) == Len(numstack[t])

\* ------------------------------------------------------------ lookup table
\* op_lookup is kept as its non-null slots: a function from the codes whose
\* slot holds a pointer to the symbol of the entry it points to.
Slot(tbl, code) == IF code \in DOMAIN tbl THEN tbl[code] ELSE "NULL"

\* init_operator_lookup applied to table tbl: one store per entry of operators.
init_operator_lookup(tbl) ==
    LET written == {CharCode(OperatorSymbols[i]) : i \in 1..Len(OperatorSymbols)}
    IN  [code \in (DOMAIN tbl \cup written) \cap 0..(OP_MAX - 1) |->
            IF code \in written
            THEN CHOOSE s \in DOMAIN operators : CharCode(s) = code
            ELSE tbl[code]]

\* What a read past the last slot of the table can give: a null pointer, or a
\* pointer to no entry of operators.
Beyond == {"NULL", "WILD"}

\* The values the read op_lookup[(unsigned char)c] can give: the slot's, or for
\* a code that is no index of the table anything.
GET_OPERATOR(c) ==
    IF CharCode(c) > OP_MAX - 1 THEN Beyond ELSE {Slot(op_lookup, CharCode(c))}

T_OPERATOR == "T_OPERATOR"
T_NUMBER == "T_NUMBER"
T_WHITESPACE == "T_WHITESPACE"
T_INVALID == "T_INVALID"

\* The tokens classify_char(c) can return.
classify_char(c) ==
    IF IS_DIGIT_OR_DECIMAL(c) THEN {T_NUMBER}
    ELSE IF isspace(c) THEN {T_WHITESPACE}
    ELSE {IF o # "NULL" THEN T_OPERATOR ELSE T_INVALID : o \in GET_OPERATOR(c)}

\* ------------------------------------------------------------------ stacks
NoError == <<>>
OperatorStackOverflow == <<"ERROR: Operator stack overflow">>
OperatorStackEmpty == <<"ERROR: Operator stack empty">>
OperandStackOverflow == <<"ERROR: Operand stack overflow">>
OperandStackEmpty == <<"ERROR: Operand stack empty">>
NoMatchingParen == <<"ERROR: Stack error. No matching '('">>
IllegalBinaryOperator(c) == <<"ERROR: Illegal use of binary operator", c>>
SyntaxErrorAt(c) == <<"ERROR: Syntax error", c>>
SyntaxError == <<"ERROR: Syntax error">>
MalformedResult(n) == <<"ERROR: Number stack has n elements after evaluation. Should be 1.", n>>

Top(stack) == stack[Len(stack)]
Front(stack) == SubSeq(stack, 1, Len(stack) - 1)

\* push_opstack without its test of the depth.
push_opstackUnchecked(stack, o) == [err |-> NoError, stack |-> Append(stack, o)]

\* Each returns the stack after the call and the message of the exit it took.
push_opstack(stack, o) ==
    IF Len(stack) > MAXOPSTACK - 1
    THEN [err |-> OperatorStackOverflow, stack |-> stack]
    ELSE [err |-> NoError, stack |-> Append(stack, o)]

pop_opstack(stack) ==
    IF Len(stack) = 0
    THEN [err |-> OperatorStackEmpty, stack |-> stack, val |-> "NULL"]
    ELSE [err |-> NoError, stack |-> Front(stack), val |-> Top(stack)]

push_numstack(stack, operand) ==
    IF Len(stack) > MAXNUMSTACK - 1
    THEN [err |-> OperandStackOverflow, stack |-> stack]
    ELSE [err |-> NoError, stack |-> Append(stack, operand)]

\* pop_numstack without its test of the depth: the read below index 0 returns
\* anything.
pop_numstackUnchecked(stack) ==
    IF Len(stack) = 0
    THEN [err |-> NoError, stack |-> stack, val |-> Opaque("undefined", <<>>)]
    ELSE [err |-> NoError, stack |-> Front(stack), val |-> Top(stack)]

pop_numstack(stack) ==
    IF Len(stack) = 0
    THEN [err |-> OperandStackEmpty, stack |-> stack, val |-> Zero]
    ELSE [err |-> NoError, stack |-> Front(stack), val |-> Top(stack)]

\* A double read after the call through a null function pointer did not trap.
Undefined == Opaque("undefined", <<>>)

\* One reduction: pop an operator, pop its operand(s), push what eval returns.
\* The outcomes: the stacks after it, the operator popped, the exit taken if
\* any, and whether the call of eval trapped (eval is NULL for a parenthesis:
\* the call is undefined, so it traps or returns anything).
Reduce(ops, nums) ==
    LET po == pop_opstack(ops)
        p1 == pop_numstack(nums)
        p2 == pop_numstack(p1.stack)
        out(e, n, c) == [err |-> e, crash |-> c, ops |-> po.stack, nums |-> n,
                         popped |-> po.val]
    IN  IF po.err # NoError THEN {out(po.err, nums, FALSE)}
        ELSE IF p1.err # NoError THEN {out(p1.err, p1.stack, FALSE)}
        ELSE IF operators[po.val].unary # 0
        THEN LET q == push_numstack(p1.stack,
                          Apply(operators[po.val].eval, p1.val, Zero))
             IN  {out(q.err, q.stack, FALSE)}
        ELSE IF p2.err # NoError THEN {out(p2.err, p2.stack, FALSE)}
        ELSE IF operators[po.val].eval = "NULL"
        THEN {out(NoError, p2.stack, TRUE),
              out(NoError, push_numstack(p2.stack, Undefined).stack, FALSE)}
        ELSE LET q == push_numstack(p2.stack,
                          Apply(operators[po.val].eval, p2.val, p1.val))
             IN  {out(q.err, q.stack, FALSE)}

\* ------------------------------------------------------- how a call ends
\* exit(EXIT_FAILURE) after writing msg to stderr.
Exit(t, msg) ==
    /\ stderr' = Append(stderr, msg)
    /\ exitstatus' = "EXIT_FAILURE"
    /\ pc' = [pc EXCEPT ![t] = "exit"]
    /\ outcomes' = [outcomes EXCEPT ![t] =
                       Append(@, [how |-> "exit", value |-> <<>>, err |-> msg])]

\* The process is killed by the trap of a call through a null pointer.
Crash(t) ==
    /\ stderr' = stderr
    /\ exitstatus' = "SIGSEGV"
    /\ pc' = [pc EXCEPT ![t] = "exit"]
    /\ outcomes' = [outcomes EXCEPT ![t] =
                       Append(@, [how |-> "crash", value |-> <<>>, err |-> NoError])]

\* return v to the caller, after writing msg (if any) to stderr.
Return(t, v, msg) ==
    /\ stderr' = IF msg = NoError THEN stderr ELSE Append(stderr, msg)
    /\ exitstatus' = exitstatus
    /\ pc' = [pc EXCEPT ![t] = "main"]
    /\ outcomes' = [outcomes EXCEPT ![t] =
                       Append(@, [how |-> "return", value |-> <<v>>, err |-> msg])]

\* The call goes on at pc p.
Goto(t, p) ==
    /\ pc' = [pc EXCEPT ![t] = p]
    /\ UNCHANGED <<stderr, exitstatus, outcomes>>

Running(t, p) == exitstatus = "running" /\ t \in threads /\ pc[t] = p

\* ------------------------------------------------------------------ parser
\* parser's entry with a ParserContext that is not zeroed.
CallKeepingStacks(t) ==
    /\ Running(t, "main")
    /\ ncalls' = [ncalls EXCEPT ![t] = @ + 1]
    /\ op_lookup' = init_operator_lookup(op_lookup)
    /\ lastoperator' = [lastoperator EXCEPT ![t] = startoperator.operator]
    /\ expr' = [expr EXCEPT ![t] = 1]
    /\ Goto(t, "scan")
    /\ UNCHANGED <<threads, expression, tstart, op, pop, stdout, opstack, numstack>>

\* parser's entry: a zeroed ParserContext, the table rebuilt, lastoperator at
\* the sentinel.  The thread_local tstart, op and pop are left as they are.
Call(t) ==
    /\ Running(t, "main")
    /\ ncalls' = [ncalls EXCEPT ![t] = @ + 1]
    /\ opstack' = [opstack EXCEPT ![t] = <<>>]
    /\ numstack' = [numstack EXCEPT ![t] = <<>>]
    /\ op_lookup' = init_operator_lookup(op_lookup)
    /\ lastoperator' = [lastoperator EXCEPT ![t] = startoperator.operator]
    /\ expr' = [expr EXCEPT ![t] = 1]
    /\ Goto(t, "scan")
    /\ UNCHANGED <<threads, expression, tstart, op, pop, stdout>>

Scanning(t) == Running(t, "scan") /\ expr[t] <= Len(expression[t])
Cur(t) == expression[t][expr[t]]

\* Variants of the test of lastoperator: one that never holds, and one that
\* holds at the sentinel only.
AfterOperatorNever(last) == FALSE
AfterOperatorStartOnly(last) == last = startoperator.operator
\* One that holds after ')' as after any other operator.
AfterOperatorParenToo(last) == last # "NULL"

\* Whether lastoperator allows only a unary operator or '(' next.
AfterOperator(last) == last # "NULL" /\ (last = startoperator.operator \/ last # ")")

\* Not in a number, an operator: '-' after an operator becomes '_', any other
\* operator but '(' after an operator exits; the operator is then shunted.
\* A pointer read past the table is dereferenced at op->operator: a trap.
ScanOperator(t) ==
    /\ Scanning(t) /\ tstart[t] = 0 /\ T_OPERATOR \in classify_char(Cur(t))
    /\ \E o \in GET_OPERATOR(Cur(t)) \ {"NULL"} :
          LET illegal == AfterOperator(lastoperator[t]) /\ o # "-" /\ o # "("
              o2 == IF AfterOperator(lastoperator[t]) /\ o = "-"
                    THEN CHOOSE u \in GET_OPERATOR("_") : TRUE ELSE o
          IN  IF o \notin DOMAIN operators
              THEN op' = [op EXCEPT ![t] = o] /\ Crash(t)
              ELSE /\ op' = [op EXCEPT ![t] = o2]
                   /\ IF illegal THEN Exit(t, IllegalBinaryOperator(o))
                      ELSE Goto(t, "shunt")
    /\ UNCHANGED <<threads, expression, ncalls, expr, tstart, pop, lastoperator,
                   opstack, numstack, op_lookup, stdout>>

\* Not in a number, a digit or '.': the number starts here.
ScanNumberStart(t) ==
    /\ Scanning(t) /\ tstart[t] = 0 /\ T_NUMBER \in classify_char(Cur(t))
    /\ tstart' = [tstart EXCEPT ![t] = expr[t]]
    /\ expr' = [expr EXCEPT ![t] = @ + 1]
    /\ Goto(t, "scan")
    /\ UNCHANGED <<threads, expression, ncalls, op, pop, lastoperator,
                   opstack, numstack, op_lookup, stdout>>

\* Not in a number, an invalid character: return EXIT_FAILURE.
ScanInvalid(t) ==
    /\ Scanning(t) /\ tstart[t] = 0 /\ T_INVALID \in classify_char(Cur(t))
    /\ Return(t, Lit(EXIT_FAILURE), SyntaxErrorAt(Cur(t)))
    /\ UNCHANGED <<threads, expression, ncalls, expr, tstart, op, pop,
                   lastoperator, opstack, numstack, op_lookup, stdout>>

\* Not in a number, whitespace: skipped.
ScanSpace(t) ==
    /\ Scanning(t) /\ tstart[t] = 0 /\ T_WHITESPACE \in classify_char(Cur(t))
    /\ expr' = [expr EXCEPT ![t] = @ + 1]
    /\ Goto(t, "scan")
    /\ UNCHANGED <<threads, expression, ncalls, tstart, op, pop, lastoperator,
                   opstack, numstack, op_lookup, stdout>>

\* In a number, whitespace: the number is pushed and lastoperator forgotten.
NumberThenSpace(t) ==
    /\ Scanning(t) /\ tstart[t] # 0 /\ T_WHITESPACE \in classify_char(Cur(t))
    /\ LET q == push_numstack(numstack[t], strtod(expression[t], tstart[t]))
       IN  /\ numstack' = [numstack EXCEPT ![t] = q.stack]
           /\ IF q.err # NoError
              THEN Exit(t, q.err) /\ UNCHANGED <<tstart, lastoperator, expr>>
              ELSE /\ tstart' = [tstart EXCEPT ![t] = 0]
                   /\ lastoperator' = [lastoperator EXCEPT ![t] = "NULL"]
                   /\ expr' = [expr EXCEPT ![t] = @ + 1]
                   /\ Goto(t, "scan")
    /\ UNCHANGED <<threads, expression, ncalls, op, pop, opstack, op_lookup, stdout>>

\* In a number, an operator: the number is pushed and the operator shunted
\* (shunt_operator dereferences a pointer read past the table: a trap).
NumberThenOperator(t) ==
    /\ Scanning(t) /\ tstart[t] # 0 /\ T_OPERATOR \in classify_char(Cur(t))
    /\ LET q == push_numstack(numstack[t], strtod(expression[t], tstart[t]))
       IN  /\ numstack' = [numstack EXCEPT ![t] = q.stack]
           /\ IF q.err # NoError
              THEN Exit(t, q.err) /\ UNCHANGED <<tstart, op>>
              ELSE /\ tstart' = [tstart EXCEPT ![t] = 0]
                   /\ \E o \in GET_OPERATOR(Cur(t)) \ {"NULL"} :
                         /\ op' = [op EXCEPT ![t] = o]
                         /\ IF o \notin DOMAIN operators THEN Crash(t)
                            ELSE Goto(t, "shunt")
    /\ UNCHANGED <<threads, expression, ncalls, expr, pop, lastoperator, opstack,
                   op_lookup, stdout>>

\* In a number, an invalid character: return EXIT_FAILURE.
NumberThenInvalid(t) ==
    /\ Scanning(t) /\ tstart[t] # 0 /\ T_INVALID \in classify_char(Cur(t))
    /\ Return(t, Lit(EXIT_FAILURE), SyntaxError)
    /\ UNCHANGED <<threads, expression, ncalls, expr, tstart, op, pop,
                   lastoperator, opstack, numstack, op_lookup, stdout>>

\* The scan of a number that does not advance.
NumberContinuesStuck(t) ==
    /\ Scanning(t) /\ tstart[t] # 0 /\ T_NUMBER \in classify_char(Cur(t))
    /\ UNCHANGED vars

\* In a number, a digit or '.': the number goes on.
NumberContinues(t) ==
    /\ Scanning(t) /\ tstart[t] # 0 /\ T_NUMBER \in classify_char(Cur(t))
    /\ expr' = [expr EXCEPT ![t] = @ + 1]
    /\ Goto(t, "scan")
    /\ UNCHANGED <<threads, expression, ncalls, tstart, op, pop, lastoperator,
                   opstack, numstack, op_lookup, stdout>>

\* ---------------------------------------------------------- shunt_operator
Shunting(t) == Running(t, "shunt")

\* After shunt_operator returns: lastoperator=op, and the loop's ++expr.
ShuntDone(t) ==
    /\ lastoperator' = [lastoperator EXCEPT ![t] = op[t]]
    /\ expr' = [expr EXCEPT ![t] = @ + 1]
    /\ Goto(t, "scan")

\* The stacks and pop after outcome r of a reduction, and where it leads.
Reduced(t, r, next) ==
    /\ opstack' = [opstack EXCEPT ![t] = r.ops]
    /\ numstack' = [numstack EXCEPT ![t] = r.nums]
    /\ IF r.crash THEN Crash(t)
       ELSE IF r.err # NoError THEN Exit(t, r.err)
       ELSE Goto(t, next)

\* Variants of the loop conditions: ')' reducing nothing, the comparison of a
\* right-associative operator made <=, that of a left-associative one made <,
\* and that of a left-associative one turned round.
ParenLoopNever(ops) == FALSE
\* A right-associative operator reducing nothing.
RightLoopNever(o, ops) == FALSE
RightLoopNonStrict(o, ops) ==
    Len(ops) # 0 /\ operators[o].precedence <= operators[Top(ops)].precedence
LeftLoopStrict(o, ops) ==
    Len(ops) # 0 /\ operators[o].precedence < operators[Top(ops)].precedence
LeftLoopReversed(o, ops) ==
    Len(ops) # 0 /\ operators[o].precedence >= operators[Top(ops)].precedence

\* The loop conditions of shunt_operator, for operator o and operator stack ops.
ParenLoop(ops) == Len(ops) > 0 /\ operators[Top(ops)].operator # "("
RightLoop(o, ops) ==
    Len(ops) # 0 /\ operators[o].precedence < operators[Top(ops)].precedence
LeftLoop(o, ops) ==
    Len(ops) # 0 /\ operators[o].precedence <= operators[Top(ops)].precedence
IsRight(o) == operators[o].association = ASSOC_RIGHT

\* '(' shunted as an operator of its precedence: what is on the stack is
\* reduced before it is pushed.
ShuntLParenReducing(t) ==
    /\ Shunting(t) /\ op[t] = "("
    /\ IF LeftLoop(op[t], opstack[t])
       THEN /\ \E r \in Reduce(opstack[t], numstack[t]) :
                  /\ pop' = [pop EXCEPT ![t] = r.popped]
                  /\ Reduced(t, r, "shunt")
            /\ UNCHANGED <<lastoperator, expr>>
       ELSE LET q == push_opstack(opstack[t], op[t])
            IN  /\ opstack' = [opstack EXCEPT ![t] = q.stack]
                /\ IF q.err # NoError
                   THEN Exit(t, q.err) /\ UNCHANGED <<lastoperator, expr>>
                   ELSE ShuntDone(t)
                /\ UNCHANGED <<pop, numstack>>
    /\ UNCHANGED <<threads, expression, ncalls, tstart, op, op_lookup, stdout>>

\* '(' is pushed.
ShuntLParen(t) ==
    /\ Shunting(t) /\ op[t] = "("
    /\ LET q == push_opstack(opstack[t], op[t])
       IN  /\ opstack' = [opstack EXCEPT ![t] = q.stack]
           /\ IF q.err # NoError
              THEN Exit(t, q.err) /\ UNCHANGED <<lastoperator, expr>>
              ELSE ShuntDone(t)
    /\ UNCHANGED <<threads, expression, ncalls, tstart, op, pop, numstack,
                   op_lookup, stdout>>

\* ')': one reduction of the operators above the nearest '('.
ShuntRParenReduce(t) ==
    /\ Shunting(t) /\ op[t] = ")" /\ ParenLoop(opstack[t])
    /\ \E r \in Reduce(opstack[t], numstack[t]) :
          /\ pop' = [pop EXCEPT ![t] = r.popped]
          /\ Reduced(t, r, "shunt")
    /\ UNCHANGED <<threads, expression, ncalls, expr, tstart, op, lastoperator,
                   op_lookup, stdout>>

\* ')': the loop is over; the operator popped must be '('.
ShuntRParenClose(t) ==
    /\ Shunting(t) /\ op[t] = ")" /\ ~ParenLoop(opstack[t])
    /\ LET po == pop_opstack(opstack[t])
       IN  /\ opstack' = [opstack EXCEPT ![t] = po.stack]
           /\ pop' = [pop EXCEPT ![t] = po.val]
           /\ IF po.err # NoError
              THEN Exit(t, po.err) /\ UNCHANGED <<lastoperator, expr>>
              ELSE IF po.val # "("
              THEN Exit(t, NoMatchingParen) /\ UNCHANGED <<lastoperator, expr>>
              ELSE ShuntDone(t)
    /\ UNCHANGED <<threads, expression, ncalls, tstart, op, numstack,
                   op_lookup, stdout>>

\* A right-associative operator: one reduction of a top of higher precedence.
ShuntRightReduce(t) ==
    /\ Shunting(t) /\ op[t] \notin {"(", ")"} /\ IsRight(op[t])
    /\ RightLoop(op[t], opstack[t])
    /\ \E r \in Reduce(opstack[t], numstack[t]) :
          /\ pop' = [pop EXCEPT ![t] = r.popped]
          /\ Reduced(t, r, "shunt")
    /\ UNCHANGED <<threads, expression, ncalls, expr, tstart, op, lastoperator,
                   op_lookup, stdout>>

\* Any other operator: one reduction of a top of higher or equal precedence.
ShuntLeftReduce(t) ==
    /\ Shunting(t) /\ op[t] \notin {"(", ")"} /\ ~IsRight(op[t])
    /\ LeftLoop(op[t], opstack[t])
    /\ \E r \in Reduce(opstack[t], numstack[t]) :
          /\ pop' = [pop EXCEPT ![t] = r.popped]
          /\ Reduced(t, r, "shunt")
    /\ UNCHANGED <<threads, expression, ncalls, expr, tstart, op, lastoperator,
                   op_lookup, stdout>>

\* The loop is over: the operator is pushed.
ShuntPush(t) ==
    /\ Shunting(t) /\ op[t] \notin {"(", ")"}
    /\ IF IsRight(op[t]) THEN ~RightLoop(op[t], opstack[t])
       ELSE ~LeftLoop(op[t], opstack[t])
    /\ LET q == push_opstack(opstack[t], op[t])
       IN  /\ opstack' = [opstack EXCEPT ![t] = q.stack]
           /\ IF q.err # NoError
              THEN Exit(t, q.err) /\ UNCHANGED <<lastoperator, expr>>
              ELSE ShuntDone(t)
    /\ UNCHANGED <<threads, expression, ncalls, tstart, op, pop, numstack,
                   op_lookup, stdout>>

\* ------------------------------------------------- parser, after the scan
\* The end of the string: a number still open is pushed (tstart is not reset).
EndOfInput(t) ==
    /\ Running(t, "scan") /\ expr[t] > Len(expression[t])
    /\ LET q == IF tstart[t] # 0
                THEN push_numstack(numstack[t], strtod(expression[t], tstart[t]))
                ELSE [err |-> NoError, stack |-> numstack[t]]
       IN  /\ numstack' = [numstack EXCEPT ![t] = q.stack]
           /\ IF q.err # NoError THEN Exit(t, q.err) ELSE Goto(t, "drain")
    /\ UNCHANGED <<threads, expression, ncalls, expr, tstart, op, pop,
                   lastoperator, opstack, op_lookup, stdout>>

\* One reduction of the loop that empties the operator stack.
DrainReduce(t) ==
    /\ Running(t, "drain") /\ nopstack(t) # 0
    /\ \E r \in Reduce(opstack[t], numstack[t]) :
          /\ op' = [op EXCEPT ![t] = r.popped]
          /\ Reduced(t, r, "drain")
    /\ UNCHANGED <<threads, expression, ncalls, expr, tstart, pop, lastoperator,
                   op_lookup, stdout>>

\* The operator stack is empty: numstack[0] is returned if it is the only
\* element, EXIT_FAILURE otherwise.
ParserReturn(t) ==
    /\ Running(t, "drain") /\ nopstack(t) = 0
    /\ IF nnumstack(t) # 1
       THEN Return(t, Lit(EXIT_FAILURE), MalformedResult(nnumstack(t)))
       ELSE Return(t, numstack[t][1], NoError)
    /\ UNCHANGED <<threads, expression, ncalls, expr, tstart, op, pop,
                   lastoperator, opstack, numstack, op_lookup, stdout>>

\* One step of a call of parser by some thread.
ParserStep ==
    \/ \E t \in threads : ScanOperator(t)
    \/ \E t \in threads : ScanNumberStart(t)
    \/ \E t \in threads : ScanInvalid(t)
    \/ \E t \in threads : ScanSpace(t)
    \/ \E t \in threads : NumberThenSpace(t)
    \/ \E t \in threads : NumberThenOperator(t)
    \/ \E t \in threads : NumberThenInvalid(t)
    \/ \E t \in threads : NumberContinues(t)
    \/ \E t \in threads : ShuntLParen(t)
    \/ \E t \in threads : ShuntRParenReduce(t)
    \/ \E t \in threads : ShuntRParenClose(t)
    \/ \E t \in threads : ShuntRightReduce(t)
    \/ \E t \in threads : ShuntLeftReduce(t)
    \/ \E t \in threads : ShuntPush(t)
    \/ \E t \in threads : EndOfInput(t)
    \/ \E t \in threads : DrainReduce(t)
    \/ \E t \in threads : ParserReturn(t)

\* ----------------------------------------------------------------- drivers
\* The value the last call of thread t returned.
LastResult(t) == outcomes[t][Len(outcomes[t])].value[1]

\* The CLI wrapper: parser(argv[1]) once ...
MainCall(t) == ncalls[t] = 0 /\ Call(t)

\* ... then printf("%.15G\n", result) and return 0.
MainPrint(t) ==
    /\ Running(t, "main") /\ ncalls[t] = 1
    /\ stdout' = Append(stdout, <<"%.15G", LastResult(t)>>)
    /\ exitstatus' = "EXIT_SUCCESS"
    /\ pc' = [pc EXCEPT ![t] = "exit"]
    /\ UNCHANGED <<threads, expression, ncalls, expr, tstart, op, pop,
                   lastoperator, opstack, numstack, outcomes, op_lookup, stderr>>

\* The benchmark: parser(expr) in a loop of MaxCalls iterations ...
BenchCall(t) == ncalls[t] < MaxCalls /\ Call(t)

\* ... then the report and return 0.
BenchEnd(t) ==
    /\ Running(t, "main") /\ ncalls[t] = MaxCalls
    /\ stdout' = Append(stdout, <<"Evaluated %d iterations", Lit(ncalls[t])>>)
    /\ exitstatus' = "EXIT_SUCCESS"
    /\ pc' = [pc EXCEPT ![t] = "exit"]
    /\ UNCHANGED <<threads, expression, ncalls, expr, tstart, op, pop,
                   lastoperator, opstack, numstack, outcomes, op_lookup, stderr>>

\* The benchmark's expression.
BenchExpr == <<"3", "+", "4", "*", "2", "-", "7", "/", "5", "^", "2", "+",
               "(", "-", "3", ")", "^", "2">>

\* The process as started with threads T, each given an expression of E:
\* statics zeroed.
InitWith(T, E) ==
    /\ threads = T
    /\ expression \in [T -> E]
    /\ ncalls = [t \in threads |-> 0]
    /\ pc = [t \in threads |-> "main"]
    /\ expr = [t \in threads |-> 1]
    /\ tstart = [t \in threads |-> 0]
    /\ op = [t \in threads |-> "NULL"]
    /\ pop = [t \in threads |-> "NULL"]
    /\ lastoperator = [t \in threads |-> "NULL"]
    /\ opstack = [t \in threads |-> <<>>]
    /\ numstack = [t \in threads |-> <<>>]
    /\ outcomes = [t \in threads |-> <<>>]
    /\ op_lookup = <<>>
    /\ stderr = <<>>
    /\ stdout = <<>>
    /\ exitstatus = "running"

\* One thread, its argument chosen.
Init == InitWith({1}, Inputs \cup {BenchExpr})

\* The CLI program.
Next ==
    \/ \E t \in threads : MainCall(t)
    \/ ParserStep
    \/ \E t \in threads : MainPrint(t)
Spec == Init /\ [][Next]_vars

\* The benchmark program.
NextBench ==
    \/ \E t \in threads : BenchCall(t)
    \/ ParserStep
    \/ \E t \in threads : BenchEnd(t)
SpecBench == Init /\ [][NextBench]_vars

\* ================================================================== claims
\* The value of a one-digit literal, and of x o y for a binary operator o.
V(c) == Lit(DigitValue(c))
Bin(o, x, y) ==
    CASE o = "+" -> eval_add(x, y)      [] o = "-" -> eval_subtract(x, y)
      [] o = "*" -> eval_multiply(x, y) [] o = "/" -> eval_divide(x, y)
      [] o = "%" -> eval_modulo(x, y)   [] o = "^" -> eval_exponent(x, y)
Neg(x) == eval_uminus(x, Zero)

\* The ranks the specification gives the binary operators.
Rank(o) ==
    CASE o = "^" -> 3 [] o \in {"*", "/", "%"} -> 2 [] o \in {"+", "-"} -> 1

\* A call that returned v with nothing written to stderr.
Success(v) == [how |-> "return", value |-> <<v>>, err |-> NoError]
Ended(t) == Len(outcomes[t]) >= 1
\* The outcome of thread t's first call: the evaluation from a fresh process.
First(t) == outcomes[t][1]
IsChain(e) ==
    /\ Len(e) = 5 /\ e[1] \in Digits /\ e[3] \in Digits /\ e[5] \in Digits
    /\ e[2] \in BinarySymbols /\ e[4] \in BinarySymbols
IsZero(v) == IsNum(v) /\ v.n = 0
DivisionByZero == <<"ERROR: Division by zero">>

\* C1: in a process that calls parser(e) again and again on one thread, every
\* call ends as the first call, the one from the fresh process, did.
C1_RepeatedCallSameOutcome ==
    \A t \in threads : \A i \in 1..Len(outcomes[t]) : outcomes[t][i] = First(t)

\* C2: for operands a, b, c and binary operators o1, o2 of different rank,
\* 'a o1 b o2 c' evaluates to a o1 (b o2 c) when o2 has the higher rank and to
\* (a o1 b) o2 c when o1 has it.
C2_HigherRankReducedFirst ==
    \A t \in threads :
        LET e == expression[t] IN
        (Ended(t) /\ IsChain(e) /\ Rank(e[2]) # Rank(e[4])) =>
            First(t) = Success(
                IF Rank(e[2]) < Rank(e[4])
                THEN Bin(e[2], V(e[1]), Bin(e[4], V(e[3]), V(e[5])))
                ELSE Bin(e[4], Bin(e[2], V(e[1]), V(e[3])), V(e[5])))

\* 3+2*2 has returned 7 (and not 10).
C2_Witness ==
    \E t \in threads :
        /\ expression[t] = <<"3", "+", "2", "*", "2">>
        /\ Ended(t) /\ First(t) = Success(Lit(7))

\* C3: 'a^b^c' evaluates to a^(b^c) and '(a^b)^c' to (a^b)^c.
C3_ExponentRightToLeft ==
    \A t \in threads :
        LET e == expression[t] IN
        /\ (Ended(t) /\ IsChain(e) /\ e[2] = "^" /\ e[4] = "^") =>
              First(t) = Success(Bin("^", V(e[1]), Bin("^", V(e[3]), V(e[5]))))
        /\ (Ended(t) /\ Len(e) = 7 /\ e[1] = "(" /\ e[5] = ")"
              /\ IsChain(<<e[2], e[3], e[4], e[6], e[7]>>)
              /\ e[3] = "^" /\ e[6] = "^") =>
              First(t) = Success(Bin("^", Bin("^", V(e[2]), V(e[4])), V(e[7])))

\* 2^3^2 has returned 512 (and not 64).
C3_Witness ==
    \E t \in threads :
        /\ expression[t] = <<"2", "^", "3", "^", "2">>
        /\ Ended(t) /\ First(t) = Success(Lit(512))

\* C4: for operators o1, o2 of the same rank among * / % or among + -,
\* 'a o1 b o2 c' evaluates to (a o1 b) o2 c.
C4_EqualRankLeftToRight ==
    \A t \in threads :
        LET e == expression[t] IN
        (Ended(t) /\ IsChain(e) /\ Rank(e[2]) = Rank(e[4]) /\ e[2] # "^") =>
            First(t) = Success(Bin(e[4], Bin(e[2], V(e[1]), V(e[3])), V(e[5])))

\* 3-2-2 has returned -1 (and not 3).
C4_Witness ==
    \E t \in threads :
        /\ expression[t] = <<"3", "-", "2", "-", "2">>
        /\ Ended(t) /\ First(t) = Success(Negate(Lit(1)))

\* C5: whatever the ranks of o1 and o2, '(a o1 b) o2 c' evaluates to
\* (a o1 b) o2 c, and 'a o1 (b o2 c)' and '(a o1 (b o2 c))' to a o1 (b o2 c).
C5_ParenthesesFirst ==
    \A t \in threads :
        LET e == expression[t] IN
        /\ (Ended(t) /\ Len(e) = 7 /\ e[1] = "(" /\ e[5] = ")"
              /\ IsChain(<<e[2], e[3], e[4], e[6], e[7]>>)) =>
              First(t) = Success(Bin(e[6], Bin(e[3], V(e[2]), V(e[4])), V(e[7])))
        /\ (Ended(t) /\ Len(e) = 7 /\ e[3] = "(" /\ e[7] = ")"
              /\ IsChain(<<e[1], e[2], e[4], e[5], e[6]>>)) =>
              First(t) = Success(Bin(e[2], V(e[1]), Bin(e[5], V(e[4]), V(e[6]))))
        /\ (Ended(t) /\ Len(e) = 9 /\ e[1] = "(" /\ e[4] = "(" /\ e[8] = ")"
              /\ e[9] = ")" /\ IsChain(<<e[2], e[3], e[5], e[6], e[7]>>)) =>
              First(t) = Success(Bin(e[3], V(e[2]), Bin(e[6], V(e[5]), V(e[7]))))

\* (3+2)*2 has returned 10 and (3/(3-2)) has returned 3.
C5_Witness ==
    \E t \in threads :
        /\ Ended(t)
        /\ \/ /\ expression[t] = <<"(", "3", "+", "2", ")", "*", "2">>
              /\ First(t) = Success(Lit(10))
           \/ /\ expression[t] = <<"(", "3", "/", "(", "3", "-", "2", ")", ")">>
              /\ First(t) = Success(Lit(3))

C7_MinusAfterOperatorNegatesRight ==
    \A t \in threads :
        LET e == expression[t] IN
        (Ended(t) /\ Len(e) = 4 /\ e[1] \in Digits /\ e[2] \in BinarySymbols
           /\ e[3] = "-" /\ e[4] \in Digits) =>
            First(t) = Success(Bin(e[2], V(e[1]), Neg(V(e[4]))))

\* 3*-2 has returned -6 and 3--2 has returned 5.
C7_Witness ==
    \E t \in threads :
        /\ Ended(t)
        /\ \/ /\ expression[t] = <<"3", "*", "-", "2">>
              /\ First(t) = Success(Negate(Lit(6)))
           \/ /\ expression[t] = <<"3", "-", "-", "2">>
              /\ First(t) = Success(Lit(5))

\* Thread t's next step is a reduction: of shunt_operator's loops or the drain.
Reducing(t) ==
    \/ /\ Shunting(t)
       /\ \/ op[t] = ")" /\ ParenLoop(opstack[t])
          \/ op[t] \notin {"(", ")"} /\ IsRight(op[t]) /\ RightLoop(op[t], opstack[t])
          \/ op[t] \notin {"(", ")"} /\ ~IsRight(op[t]) /\ LeftLoop(op[t], opstack[t])
    \/ Running(t, "drain") /\ nopstack(t) # 0

\* The reduction applies / or % to a nonzero left and a zero right operand.
ReducingByZero(t) ==
    /\ Reducing(t) /\ Top(opstack[t]) \in {"/", "%"} /\ nnumstack(t) >= 2
    /\ IsZero(Top(numstack[t]))
    /\ IsNum(Top(Front(numstack[t]))) /\ ~IsZero(Top(Front(numstack[t])))

\* The step ends thread t's call in a failure: with message msg, and with no
\* value returned.
FailsWith(t, msg) ==
    /\ Len(outcomes'[t]) = Len(outcomes[t]) + 1
    /\ Top(outcomes'[t]).value = <<>>
    /\ Top(outcomes'[t]).err = msg

\* C8: a reduction that applies / or % to a nonzero left operand and a zero
\* right operand ends the evaluation with DivisionByZero and no value returned.
C8_DivisionByZeroFails ==
    [][\A t \in threads :
          ReducingByZero(t) => FailsWith(t, DivisionByZero)]_vars

\* The characters the specification accepts.
Accepted == {"0", "1", "2", "3", "4", "5", "6", "7", "8", "9", ".", " ",
             "+", "-", "*", "/", "%", "^", "(", ")"}

\* C9: when the scan reaches a character that is no digit, '.', whitespace or
\* one of + - * / % ^ ( ), the evaluation ends there with a syntax error and
\* returns no value: the character is neither skipped nor interpreted.
C9_InvalidCharacterFails ==
    [][\A t \in threads :
          (Scanning(t) /\ Cur(t) \notin Accepted) =>
              \/ FailsWith(t, SyntaxErrorAt(Cur(t)))
              \/ FailsWith(t, SyntaxError)]_vars

\* The last character of e before position i that is not whitespace; the
\* sentinel's symbol when there is none.
RECURSIVE PrevSignificant(_, _)
PrevSignificant(e, i) ==
    IF i <= 1 THEN startoperator.operator
    ELSE IF isspace(e[i - 1]) THEN PrevSignificant(e, i - 1)
    ELSE e[i - 1]

\* The scan of thread t's first call is at an operator other than '-' and '('
\* that stands at the start or follows an operator other than ')', whitespace
\* between them or not.
AtIllegalOperator(t) ==
    /\ Scanning(t) /\ ncalls[t] = 1
    /\ Cur(t) \in {"+", "*", "/", "%", "^", ")"}
    /\ PrevSignificant(expression[t], expr[t])
          \in {startoperator.operator, "+", "-", "*", "/", "%", "^", "("}

\* C10: an operator other than '-' and '(' at the very start or right after an
\* operator other than ')' ends the evaluation with IllegalBinaryOperator, and
\* neither stack has changed: the operator was not shunted.
C10_IllegalBinaryOperatorFails ==
    [][\A t \in threads :
          AtIllegalOperator(t) =>
              /\ FailsWith(t, IllegalBinaryOperator(Cur(t)))
              /\ opstack'[t] = opstack[t] /\ numstack'[t] = numstack[t]]_vars

\* 3++3 has ended with IllegalBinaryOperator('+') at the second '+', the first
\* '+' alone on the operator stack.
C10_Witness ==
    \E t \in threads :
        /\ expression[t] = <<"3", "+", "+", "3">>
        /\ Ended(t) /\ expr[t] = 3 /\ opstack[t] = <<"+">>
        /\ First(t) = [how |-> "exit", value |-> <<>>,
                       err |-> IllegalBinaryOperator("+")]

\* C11: a step that, shunting ')', finds the operator stack empty (no '(' was
\* on it) ends the evaluation with the unmatched-parenthesis failure.
C11_UnmatchedCloseFails ==
    [][\A t \in threads :
          (Shunting(t) /\ op[t] = ")" /\ nopstack(t) = 0) =>
              FailsWith(t, NoMatchingParen)]_vars

\* C12: a step of the final drain that pops a '(' ends the evaluation with the
\* unmatched-parenthesis failure, whatever the operand stack holds.
C12_UnclosedOpenFails ==
    [][\A t \in threads :
          (Running(t, "drain") /\ nopstack(t) # 0 /\ Top(opstack[t]) = "(") =>
              FailsWith(t, NoMatchingParen)]_vars

\* The operands the reduction of the operator on top of the stack pops.
Needs(t) == IF operators[Top(opstack[t])].unary # 0 THEN 1 ELSE 2

\* s is a prefix of r.
IsPrefix(s, r) == Len(s) <= Len(r) /\ s = SubSeq(r, 1, Len(s))

\* C13: a reduction of one of _ ^ * / % + - that finds fewer operands than it
\* pops (one for unary, two for binary) ends the evaluation with the
\* operand-stack-underflow failure, and pushes nothing: the operand stack after
\* it is a prefix of the one before.
C13_OperandUnderflowFails ==
    [][\A t \in threads :
          (Reducing(t) /\ Top(opstack[t]) \notin {"(", ")"}
             /\ nnumstack(t) < Needs(t)) =>
              /\ FailsWith(t, OperandStackEmpty)
              /\ IsPrefix(numstack'[t], numstack[t])]_vars

\* 2^ has ended in the drain with the operand-stack-underflow failure, the
\* operand 2 popped and nothing pushed.
C13_Witness ==
    \E t \in threads :
        /\ expression[t] = <<"2", "^">>
        /\ Ended(t) /\ numstack[t] = <<>> /\ opstack[t] = <<>>
        /\ First(t) = [how |-> "exit", value |-> <<>>, err |-> OperandStackEmpty]

\* C14: when the drain is over and the operand stack does not hold exactly one
\* value, the evaluation ends with MalformedResult and returns no value.
C14_MalformedResultFails ==
    [][\A t \in threads :
          (Running(t, "drain") /\ nopstack(t) = 0 /\ nnumstack(t) # 1) =>
              FailsWith(t, MalformedResult(nnumstack(t)))]_vars

\* C15: the command-line program exits with status 0 only when the evaluation
\* succeeded, and prints nothing when it failed.
C15_FailureGivesNonZeroStatus ==
    \A t \in threads :
        Ended(t) =>
            /\ exitstatus = "EXIT_SUCCESS" =>
                  First(t).how = "return" /\ First(t).err = NoError
            /\ First(t).err # NoError => stdout = <<>>

\* Thread t's next step calls push_opstack, push_numstack from the scan, or
\* pops a stack that is empty.
PushesOperator(t) ==
    /\ Shunting(t)
    /\ \/ op[t] = "("
       \/ /\ op[t] \notin {"(", ")"}
          /\ IF IsRight(op[t]) THEN ~RightLoop(op[t], opstack[t])
             ELSE ~LeftLoop(op[t], opstack[t])
PushesOperand(t) ==
    /\ Running(t, "scan") /\ tstart[t] # 0
    /\ \/ expr[t] > Len(expression[t])
       \/ classify_char(Cur(t)) \subseteq {T_WHITESPACE, T_OPERATOR}
PopsNoOperator(t) == Shunting(t) /\ op[t] = ")" /\ nopstack(t) = 0
PopsNoOperand(t) == Reducing(t) /\ nnumstack(t) < Needs(t)

DepthsInRange ==
    \A t \in threads :
        /\ 0 <= nopstack(t) /\ nopstack(t) <= 64
        /\ 0 <= nnumstack(t) /\ nnumstack(t) <= 64

\* C16: both stack depths stay within 0..64; a push at depth 64 ends the
\* evaluation with the overflow failure of its stack and writes nothing, and a
\* pop at depth 0 ends it with the underflow failure of its stack.
C16_StackDepthsBounded ==
    /\ []DepthsInRange
    /\ [][\A t \in threads :
            /\ (PushesOperator(t) /\ nopstack(t) = 64) =>
                  FailsWith(t, OperatorStackOverflow) /\ opstack'[t] = opstack[t]
            /\ (PushesOperand(t) /\ nnumstack(t) = 64) =>
                  FailsWith(t, OperandStackOverflow) /\ numstack'[t] = numstack[t]
            /\ PopsNoOperator(t) =>
                  FailsWith(t, OperatorStackEmpty) /\ opstack'[t] = opstack[t]
            /\ PopsNoOperand(t) =>
                  /\ FailsWith(t, OperandStackEmpty)
                  /\ IsPrefix(numstack'[t], numstack[t])]_vars

\* 65 times '(' has ended with the operator-stack-overflow failure at depth 64,
\* and 65 literals with the operand-stack-overflow failure at depth 64.
C16_Witness ==
    \E t \in threads :
        /\ Ended(t) /\ First(t).how = "exit"
        /\ \/ /\ expression[t] = OpenParens(MAXOPSTACK + 1)
              /\ nopstack(t) = 64 /\ First(t).err = OperatorStackOverflow
           \/ /\ expression[t] = Literals(MAXNUMSTACK + 1)
              /\ nnumstack(t) = 64 /\ First(t).err = OperandStackOverflow

\* The CLI program as the processor runs it: a step that can be taken is taken.
\* Its arguments: every short string, and the longer shapes over one digit.
MaxLiveLen == 2
LiveInputs ==
    UNION {Strings(n) : n \in 0..MaxLiveLen}
    \cup {e \in Chains \cup Grouped : \A i \in 1..Len(e) : e[i] \notin {"0", "3"}}
    \cup Signed \cup StackFillers \cup {BenchExpr}
InitLive == InitWith({1}, LiveInputs)
SpecLive == InitLive /\ [][Next]_vars /\ WF_vars(Next)

\* Thread t is inside a call of parser.
InCall(t) == Running(t, "scan") \/ Running(t, "shunt") \/ Running(t, "drain")

\* C17: every call of parser ends; until it does, a step of the scan that
\* stays in the scan moves to the next character, a step of shunt_operator
\* either pops one operator or ends the shunt at the next character, and a step
\* of the drain pops one operator.
C17_EveryCallTerminates ==
    /\ (\E t \in threads : InCall(t)) ~> (\A t \in threads : ~InCall(t))
    /\ [][\A t \in threads :
            (InCall(t) /\ InCall(t)') =>
                /\ (pc[t] = "scan" /\ pc'[t] = "scan") => expr'[t] = expr[t] + 1
                /\ (pc[t] = "scan" /\ pc'[t] = "shunt") =>
                      expr'[t] = expr[t] /\ expr[t] <= Len(expression[t])
                /\ (pc[t] = "scan" /\ pc'[t] = "drain") =>
                      expr[t] = Len(expression[t]) + 1
                /\ (pc[t] = "shunt" /\ pc'[t] = "shunt") =>
                      Len(opstack'[t]) = nopstack(t) - 1
                /\ (pc[t] = "shunt" /\ pc'[t] = "scan") => expr'[t] = expr[t] + 1
                /\ pc[t] = "shunt" => pc'[t] # "drain"
                /\ pc[t] = "drain" =>
                      pc'[t] = "drain" /\ Len(opstack'[t]) = nopstack(t) - 1]_vars

\* The call on the benchmark's expression has returned, its operator stack
\* drained.
C17_Witness ==
    \E t \in threads :
        /\ expression[t] = BenchExpr
        /\ Ended(t) /\ First(t).how = "return" /\ First(t).err = NoError
        /\ ~InCall(t) /\ nopstack(t) = 0 /\ expr[t] = Len(BenchExpr) + 1

\* ------------------------------------------------ two concurrent evaluations
\* A process of two threads, each calling parser once on its own expression;
\* the process ends when both calls have returned, or when one of them exits.
ConcInputs ==
    {<<"3", "+", "2", "*", "2">>, <<"3", "-", "2", "-", "2">>,
     <<"-", "2", "^", "2">>, <<"(", " ", "2", " ", "+", "3", ")">>,
     <<"2", "^">>, <<"a">>, <<"2", "2", "a">>}

ThreadCall(t) == ncalls[t] = 0 /\ Call(t)

JoinAll ==
    /\ exitstatus = "running"
    /\ \A t \in threads : pc[t] = "main" /\ ncalls[t] = 1
    /\ exitstatus' = "EXIT_SUCCESS"
    /\ pc' = [t \in threads |-> "exit"]
    /\ UNCHANGED <<threads, expression, ncalls, expr, tstart, op, pop,
                   lastoperator, opstack, numstack, outcomes, op_lookup,
                   stderr, stdout>>

InitConc == InitWith({1, 2}, ConcInputs)
NextConc ==
    \/ \E t \in threads : ThreadCall(t)
    \/ ParserStep
    \/ JoinAll
SpecConc == InitConc /\ [][NextConc]_vars

\* What the call on expression e of ConcInputs returns in a process of its own.
Alone(e) ==
    CASE IsChain(e) ->
           Success(IF Rank(e[2]) < Rank(e[4])
                   THEN Bin(e[2], V(e[1]), Bin(e[4], V(e[3]), V(e[5])))
                   ELSE Bin(e[4], Bin(e[2], V(e[1]), V(e[3])), V(e[5])))
      [] e = <<"-", "2", "^", "2">> -> Success(Lit(4))
      [] e = <<"(", " ", "2", " ", "+", "3", ")">> -> Success(Lit(5))
      [] e = <<"2", "^">> ->
           [how |-> "exit", value |-> <<>>, err |-> OperandStackEmpty]
      [] e = <<"a">> ->
           [how |-> "return", value |-> <<Lit(EXIT_FAILURE)>>,
            err |-> SyntaxErrorAt("a")]
      [] e = <<"2", "2", "a">> ->
           [how |-> "return", value |-> <<Lit(EXIT_FAILURE)>>, err |-> SyntaxError]

\* C18: of two evaluations run concurrently, each one that was started ends,
\* under every interleaving, with the outcome it has when run alone.
C18_ConcurrentSameAsAlone ==
    \A t \in threads :
        /\ Ended(t) => First(t) = Alone(expression[t])
        /\ (exitstatus # "running" /\ ncalls[t] = 1) => Ended(t)

\* ------------------------------------- the same expression with whitespace
\* The test harness's run_parser: each expression is evaluated by a new process
\* of the CLI program.  Here the second process gets the first one's
\* expression with whitespace inserted.
MaxWsLen == 3
WsAlphabet == {"2", "-", "^", "(", ")", "a"}
WsInputs == UNION {[1..n -> WsAlphabet] : n \in 0..MaxWsLen}
Amounts == {1, 2}

\* The places of e where whitespace can go: before, after and between its
\* characters, but not between two characters of one numeric literal.
Boundaries(e) ==
    {i \in 0..Len(e) :
        ~(i >= 1 /\ i < Len(e) /\ IS_DIGIT_OR_DECIMAL(e[i])
            /\ IS_DIGIT_OR_DECIMAL(e[i + 1]))}

\* e with n spaces at each place of B, from place i on.
RECURSIVE Spread(_, _, _, _)
Spread(e, B, n, i) ==
    IF i > Len(e) THEN <<>>
    ELSE (IF i \in B THEN [j \in 1..n |-> " "] ELSE <<>>)
         \o (IF i < Len(e) THEN <<e[i + 1]>> ELSE <<>>)
         \o Spread(e, B, n, i + 1)

Spaced(e) ==
    {Spread(e, B, n, 0) : B \in (SUBSET Boundaries(e)) \ {{}}, n \in Amounts}

RunParserAgain(t) ==
    /\ exitstatus # "running" /\ t \in threads /\ Len(outcomes[t]) = 1
    /\ \E w \in Spaced(expression[t]) :
          expression' = [expression EXCEPT ![t] = w]
    /\ ncalls' = [ncalls EXCEPT ![t] = 0]
    /\ pc' = [u \in threads |-> "main"]
    /\ expr' = [u \in threads |-> 1]
    /\ tstart' = [u \in threads |-> 0]
    /\ op' = [u \in threads |-> "NULL"]
    /\ pop' = [u \in threads |-> "NULL"]
    /\ lastoperator' = [u \in threads |-> "NULL"]
    /\ opstack' = [u \in threads |-> <<>>]
    /\ numstack' = [u \in threads |-> <<>>]
    /\ op_lookup' = <<>>
    /\ stderr' = <<>>
    /\ stdout' = <<>>
    /\ exitstatus' = "running"
    /\ UNCHANGED <<threads, outcomes>>

InitWs == InitWith({1}, WsInputs)
NextWs ==
    \/ Next
    \/ \E t \in threads : RunParserAgain(t)
SpecWs == InitWs /\ [][NextWs]_vars

\* Two outcomes are the same value or the same failure: equal, or both a
\* syntax error with the same returned value.
SameOutcome(o1, o2) ==
    \/ o1 = o2
    \/ /\ o1.how = o2.how /\ o1.value = o2.value
       /\ o1.err # NoError /\ o2.err # NoError
       /\ o1.err[1] = SyntaxError[1] /\ o2.err[1] = SyntaxError[1]

C20_ScanStateResetAtCall ==
    [][\A t \in threads :
          ncalls'[t] = ncalls[t] + 1 =>
              /\ tstart'[t] = 0
              /\ lastoperator'[t] = startoperator.operator
              /\ expr'[t] = 1]_vars

\* C21: every call of parser starts with both stacks empty, whatever the
\* thread's earlier calls, ended by a result or by an error return, left on
\* them.
C21_StacksEmptyAtCall ==
    [][\A t \in threads :
          ncalls'[t] = ncalls[t] + 1 =>
              opstack'[t] = <<>> /\ numstack'[t] = <<>>]_vars

\* The second call on 2+a has started with empty stacks; the first returned at
\* the 'a' with '+' on the operator stack and 2 on the operand stack.
C21_Witness ==
    \E t \in threads :
        /\ expression[t] = <<"2", "+", "a">>
        /\ ncalls[t] = 2 /\ Len(outcomes[t]) = 1
        /\ First(t).how = "return" /\ First(t).err = SyntaxErrorAt("a")
        /\ pc[t] = "scan" /\ expr[t] = 1
        /\ opstack[t] = <<>> /\ numstack[t] = <<>>

\* The nine operator symbols, and every character the module writes.
NineSymbols == {"_", "^", "*", "/", "%", "+", "-", "(", ")"}
Characters ==
    Alphabet \cup {"1", "4", "5", "6", "7", "8", "9", startoperator.operator}

\* The table as one build from the zeroed static leaves it.
BuiltOnce == init_operator_lookup(<<>>)

\* C22: once parser has built the table, however many times, the table is as
\* one build leaves it: a slot for each of _ ^ * / % + - ( ), holding the entry
\* of that symbol with precedence 10, 9, 8, 8, 8, 5, 5, 0, 0, and no other
\* slot; and the scan finds an operator at exactly these nine characters: at
\* any other character no entry is read into op, nothing is shunted and the
\* lookup does not trap.
C22_LookupExactlyNineSymbols ==
    /\ []((\E t \in threads : ncalls[t] >= 1) =>
            /\ op_lookup = BuiltOnce
            /\ DOMAIN op_lookup = {CharCode(s) : s \in NineSymbols}
            /\ \A s \in NineSymbols :
                  /\ op_lookup[CharCode(s)] = s
                  /\ operators[s].operator = s
                  /\ operators[s].precedence =
                        (CASE s = "_" -> 10 [] s = "^" -> 9
                           [] s \in {"*", "/", "%"} -> 8
                           [] s \in {"+", "-"} -> 5
                           [] s \in {"(", ")"} -> 0)
            /\ \A c \in Characters :
                  CharCode(c) < OP_MAX =>
                      GET_OPERATOR(c) = {IF c \in NineSymbols THEN c ELSE "NULL"})
    /\ [][\A t \in threads :
            Scanning(t) =>
                /\ Cur(t) \notin NineSymbols =>
                      /\ op'[t] = op[t] /\ pc'[t] # "shunt"
                      /\ exitstatus' # "SIGSEGV"
                /\ (Cur(t) \in NineSymbols /\ pc'[t] = "shunt") =>
                      op'[t] \in {Cur(t), "_"}]_vars

\* C23: in an evaluation from a fresh state, a '-' is shunted as '_' exactly
\* when no significant character precedes it or the one that does is an
\* operator other than ')'; after a numeric literal (whitespace between them or
\* not) and after ')' it is shunted as the binary '-'.
C23_MinusUnaryIffAfterOperator ==
    [][\A t \in threads :
          (Scanning(t) /\ ncalls[t] = 1 /\ Cur(t) = "-" /\ pc'[t] = "shunt") =>
              LET prev == PrevSignificant(expression[t], expr[t]) IN
              /\ op'[t] \in {"_", "-"}
              /\ op'[t] = "_" <=>
                    prev \in {startoperator.operator} \cup (NineSymbols \ {")"})
              /\ (IS_DIGIT_OR_DECIMAL(prev) \/ prev = ")") => op'[t] = "-"]_vars

\* In 3--2 the first '-' was shunted as the binary '-' and the second as '_'.
C23_Witness ==
    \E t \in threads :
        /\ expression[t] = <<"3", "-", "-", "2">>
        /\ ncalls[t] = 1 /\ pc[t] = "scan" /\ expr[t] = 4
        /\ opstack[t] = <<"-", "_">> /\ numstack[t] = <<Lit(3)>>

\* Thread t's next step is a reduction of one of _ ^ * / % + - that finds the
\* operands it pops.
ReducingOperator(t) ==
    /\ Reducing(t) /\ Top(opstack[t]) \notin {"(", ")"}
    /\ nnumstack(t) >= Needs(t)

\* C24: a reduction of a binary operator o pops n1, then n2, and pushes
\* o(n2, n1); a reduction of the unary operator pops n1 and pushes its
\* negation; the operand stack gets one shorter (binary) or keeps its depth
\* (unary), and the operator stack gets one shorter.
C24_ReductionOperandOrder ==
    [][\A t \in threads :
          ReducingOperator(t) =>
              LET o == Top(opstack[t])
                  n1 == Top(numstack[t])
                  n2 == Top(Front(numstack[t]))
              IN  /\ opstack'[t] = Front(opstack[t])
                  /\ Len(opstack'[t]) = nopstack(t) - 1
                  /\ o = "_" =>
                        /\ numstack'[t] = Append(Front(numstack[t]), Neg(n1))
                        /\ Len(numstack'[t]) = nnumstack(t)
                  /\ o # "_" =>
                        /\ numstack'[t] =
                              Append(Front(Front(numstack[t])), Bin(o, n2, n1))
                        /\ Len(numstack'[t]) = nnumstack(t) - 1]_vars

\* -3/2 has returned -1.5: the negation took one operand, and the division
\* took 3 negated, pushed first, as its left operand.
C24_Witness ==
    \E t \in threads :
        /\ expression[t] = <<"-", "3", "/", "2">>
        /\ Ended(t) /\ First(t) = Success(Num(-1, 3, 2))
        /\ opstack[t] = <<>> /\ numstack[t] = <<Num(-1, 3, 2)>>

\* The '(' entries of an operator stack, and the stack up to its topmost '('.
RECURSIVE OpenCount(_)
OpenCount(ops) ==
    IF Len(ops) = 0 THEN 0
    ELSE OpenCount(Front(ops)) + (IF Top(ops) = "(" THEN 1 ELSE 0)
RECURSIVE ThroughLastOpen(_)
ThroughLastOpen(ops) ==
    IF Len(ops) = 0 \/ Top(ops) = "(" THEN ops ELSE ThroughLastOpen(Front(ops))

\* C25: within a call, a step that takes a '(' off the operator stack is the
\* one that closes a ')': it finds '(' on top and pops it alone; and the
\* shunting of any operator other than ')' leaves the stack up to its topmost
\* '(' as it was.
C25_OpenParenPoppedOnlyByClose ==
    [][\A t \in threads :
          /\ (InCall(t) /\ OpenCount(opstack'[t]) < OpenCount(opstack[t])) =>
                /\ Shunting(t) /\ op[t] = ")" /\ Top(opstack[t]) = "("
                /\ opstack'[t] = Front(opstack[t])
          /\ (Shunting(t) /\ op[t] # ")") =>
                IsPrefix(ThroughLastOpen(opstack[t]), opstack'[t])]_vars

\* Thread t's next step meets one of the violations the specification names:
\* a division or modulo by zero, a character that is not accepted, an operator
\* where none may stand, a ')' with no '(' on the stack, a '(' left for the
\* drain, a reduction short of operands, a push on a full stack, or a drained
\* stack with other than one operand.
ViolationMet(t) ==
    \/ ReducingByZero(t)
    \/ Scanning(t) /\ Cur(t) \notin Accepted
    \/ AtIllegalOperator(t)
    \/ PopsNoOperator(t)
    \/ Running(t, "drain") /\ nopstack(t) # 0 /\ Top(opstack[t]) = "("
    \/ PopsNoOperand(t)
    \/ PushesOperator(t) /\ nopstack(t) = MAXOPSTACK
    \/ PushesOperand(t) /\ nnumstack(t) = MAXNUMSTACK
    \/ Running(t, "drain") /\ nopstack(t) = 0 /\ nnumstack(t) # 1

\* The step ends thread t's call with a failure reported.
EndsInFailure(t) ==
    /\ Len(outcomes'[t]) = Len(outcomes[t]) + 1
    /\ Top(outcomes'[t]).how \in {"exit", "return"}
    /\ Top(outcomes'[t]).err # NoError
    /\ ~InCall(t)'

\* C26: the step that meets the first violation ends the evaluation with a
\* failure, so that the failure reported is that of the first violation; and
\* once the evaluation has ended nothing more is scanned, pushed or popped.
C26_StopsAtFirstViolation ==
    [][\A t \in threads :
          /\ (InCall(t) /\ ViolationMet(t)) => EndsInFailure(t)
          /\ (~InCall(t) /\ ncalls'[t] = ncalls[t]) =>
                /\ expr'[t] = expr[t] /\ ~InCall(t)'
                /\ opstack'[t] = opstack[t] /\ numstack'[t] = numstack[t]]_vars

\* C27: a step by which a call returns a number to its caller is taken with
\* the operator stack empty and the operand stack holding that number and
\* nothing else.
C27_ReturnsTheOnlyOperand ==
    [][\A t \in threads :
          (Len(outcomes'[t]) = Len(outcomes[t]) + 1
             /\ Top(outcomes'[t]).value # <<>>) =>
              /\ opstack[t] = <<>> /\ opstack'[t] = <<>>
              /\ numstack[t] = Top(outcomes'[t]).value
              /\ numstack'[t] = numstack[t]]_vars

\* C28: the shunting of '(' reduces nothing: the operand stack is unchanged
\* and the operator stack keeps its entries; below the capacity it becomes the
\* stack with '(' appended, one deeper.
C28_OpenParenOnlyPushed ==
    [][\A t \in threads :
          (Shunting(t) /\ op[t] = "(") =>
              /\ numstack'[t] = numstack[t]
              /\ IsPrefix(opstack[t], opstack'[t])
              /\ nopstack(t) < MAXOPSTACK =>
                    /\ opstack'[t] = Append(opstack[t], "(")
                    /\ Len(opstack'[t]) = nopstack(t) + 1]_vars

\* In 2+( the '(' was pushed over '+', which was not reduced.
C28_Witness ==
    \E t \in threads :
        /\ expression[t] = <<"2", "+", "(">>
        /\ pc[t] = "scan" /\ expr[t] = 4 /\ lastoperator[t] = "("
        /\ opstack[t] = <<"+", "(">> /\ numstack[t] = <<Lit(2)>>

\* The names of the evaluation functions of _ ^ * / % + -.
EvalFunctions ==
    {"eval_uminus", "eval_exponent", "eval_multiply", "eval_divide",
     "eval_modulo", "eval_add", "eval_subtract"}

\* C29: a reduction that finds its operands calls the evaluation function of
\* one of _ ^ * / % + -: the operator it popped is no parenthesis, whose
\* evaluation function is null.
C29_NoParenthesisApplied ==
    [][\A t \in threads :
          (Reducing(t) /\ nnumstack(t) >= Needs(t)) =>
              /\ Top(opstack[t]) \notin {"(", ")"}
              /\ operators[Top(opstack[t])].eval \in EvalFunctions]_vars

\* e is '-(-a)' or '--a' for a one-digit operand a.
IsDoubleNegation(e) ==
    \/ Len(e) = 5 /\ e[1] = "-" /\ e[2] = "(" /\ e[3] = "-" /\ e[4] \in Digits
         /\ e[5] = ")"
    \/ Len(e) = 3 /\ e[1] = "-" /\ e[2] = "-" /\ e[3] \in Digits
Operand(e) == IF Len(e) = 5 THEN V(e[4]) ELSE V(e[3])

\* C30: '-(-a)' and '--a' evaluate to a, and each of their reductions is one of
\* '_' that pops one operand and pushes one.
C30_DoubleNegationRestores ==
    /\ [](\A t \in threads :
            (Ended(t) /\ IsDoubleNegation(expression[t])) =>
                First(t) = Success(Operand(expression[t])))
    /\ [][\A t \in threads :
            (Reducing(t) /\ ncalls[t] = 1 /\ IsDoubleNegation(expression[t])) =>
                /\ Top(opstack[t]) = "_" /\ nnumstack(t) = 1
                /\ Len(numstack'[t]) = 1
                /\ Len(opstack'[t]) = nopstack(t) - 1]_vars

\* -(-3) has returned 3.
C30_Witness ==
    \E t \in threads :
        /\ expression[t] = <<"-", "(", "-", "3", ")">>
        /\ Ended(t) /\ First(t) = Success(Lit(3))

\* Position i of e starts a run of whitespace that ends before a character of
\* a numeric literal.
RECURSIVE SpaceThenLiteral(_, _)
SpaceThenLiteral(e, i) ==
    /\ i < Len(e) /\ isspace(e[i])
    /\ \/ IS_DIGIT_OR_DECIMAL(e[i + 1])
       \/ SpaceThenLiteral(e, i + 1)

\* e has two operands next to each other: two literals with only whitespace
\* between them, a literal directly before '(', or ')' directly before a
\* literal.
AdjacentOperands(e) ==
    \E i \in 1..(Len(e) - 1) :
        \/ IS_DIGIT_OR_DECIMAL(e[i]) /\ SpaceThenLiteral(e, i + 1)
        \/ IS_DIGIT_OR_DECIMAL(e[i]) /\ e[i + 1] = "("
        \/ e[i] = ")" /\ IS_DIGIT_OR_DECIMAL(e[i + 1])

\* C31: the evaluation, from a fresh state, of an input with two operands next
\* to each other does not end in a result: it does not return a value with no
\* failure reported, whatever follows the two operands.
C31_AdjacentOperandsNeverSucceed ==
    \A t \in threads :
        (Ended(t) /\ AdjacentOperands(expression[t])) =>
            ~(First(t).how = "return" /\ First(t).err = NoError)

\* C32: '_' gets on the operator stack only when the character being shunted
\* is a '-'; and when the scan is at a character '_', in a number or not,
\* classify_char does not return T_OPERATOR for it and nothing is shunted.
C32_UnderscoreNotAnInputOperator ==
    [][\A t \in threads :
          /\ (InCall(t) /\ Len(opstack'[t]) = nopstack(t) + 1
                /\ Top(opstack'[t]) = "_") =>
                expr[t] <= Len(expression[t]) /\ expression[t][expr[t]] = "-"
          /\ (Scanning(t) /\ Cur(t) = "_") =>
                /\ T_OPERATOR \notin classify_char(Cur(t))
                /\ pc'[t] # "shunt"
                /\ opstack'[t] = opstack[t]]_vars

\* Entries i and i+1 of ops lie in one segment: neither is a '('.
SameSegment(ops, i) == ops[i] # "(" /\ ops[i + 1] # "("

\* Within each segment of ops the precedences do not decrease from bottom to
\* top, and of two adjacent entries of equal precedence the upper one is
\* right-associative.
SegmentsOrdered(ops) ==
    \A i \in 1..(Len(ops) - 1) :
        SameSegment(ops, i) =>
            /\ operators[ops[i]].precedence <= operators[ops[i + 1]].precedence
            /\ operators[ops[i]].precedence = operators[ops[i + 1]].precedence =>
                  operators[ops[i + 1]].association = ASSOC_RIGHT

\* C33: in every reachable state, each thread's operator stack holds entries
\* of the table only, and within each segment above a '(' or above the bottom
\* its precedences never decrease upwards and are equal only below a
\* right-associative entry.
C33_SegmentsOrderedByPrecedence ==
    \A t \in threads :
        /\ \A i \in 1..nopstack(t) : opstack[t][i] \in DOMAIN operators
        /\ SegmentsOrdered(opstack[t])

\* In 2^3^2 the second '^' lies on the first, and in 3*(2+2) the '+' lies
\* over the '*' of the segment below the '('.
C33_Witness ==
    \E t \in threads :
        \/ /\ expression[t] = <<"2", "^", "3", "^", "2">>
           /\ pc[t] = "drain" /\ opstack[t] = <<"^", "^">>
        \/ /\ expression[t] = <<"3", "*", "(", "2", "+", "2", ")">>
           /\ pc[t] = "scan" /\ opstack[t] = <<"*", "(", "+">>

\* The scan of thread t is at a character for which classify_char reads the
\* table: one that is no digit, no '.' and no whitespace.
ReadsTable(t) ==
    Scanning(t) /\ ~IS_DIGIT_OR_DECIMAL(Cur(t)) /\ ~isspace(Cur(t))

\* C34: whenever the classification of an input byte reads the table, the
\* index it reads at, the byte's value as an unsigned char, is one of the
\* table's OP_MAX = 128 slots.
C34_LookupIndexInBounds ==
    \A t \in threads :
        ReadsTable(t) => (0 <= CharCode(Cur(t)) /\ CharCode(Cur(t)) < OP_MAX)

====
